---------------------------- MODULE Spec2Model ----------------------------
(***************************************************************************)
(* FreePBX (Asterisk AMI) -> AmoCRM integration: the call-session engine   *)
(* (AsteriskAMIHandler), the pure helpers extract_phone and                *)
(* detect_direction, and the CRM client (AmoCRMAPI.api_request with its    *)
(* token refresh).  Two source variants are modelled side by side:         *)
(* src/integration.py and src/integration_debug.py.                        *)
(*                                                                         *)
(* Strings the code inspects character by character (caller ids, channel   *)
(* names, contexts) are sequences of one-character strings.  Optional      *)
(* values (Python None / a value) are sequences of length 0 / 1.           *)
(***************************************************************************)
EXTENDS Integers, Sequences, FiniteSets, TLC

VARIABLES
    variant,                 \* which source file runs
    process_internal_calls,  \* config debug.process_internal_calls
    test_phone,              \* config debug.test_phone
    active_channels,         \* AsteriskAMIHandler.active_channels
    created_tasks,           \* call_data of every asyncio.create_task(process_call(..))
    lastEvent,               \* history: the event handled last, with the state before it
    bridgeSeen,              \* history: a BridgeEnter(id) was handled since the last NewChannel(id)
    emitted,                 \* history: tasks created for id since the last NewChannel(id)
    nEvents,                 \* history: number of events handled
    created,                 \* history: the NewChannel event id's session is from,
                             \*          none once a Hangup(id) was handled
    callerid_arg,            \* extract_phone harness: the caller id under test
    phone_ret,               \* extract_phone harness: the value returned
    channel_arg,             \* detect_direction harness: channel
    context_arg,             \* detect_direction harness: context
    direction_ret,           \* detect_direction harness: the value returned
    access_token,            \* AmoCRMAPI.access_token
    refresh_token,           \* AmoCRMAPI.refresh_token
    token_file,              \* the token pair persisted in tokens.json
    issued,                  \* identity endpoint: number of exchanges received
    pc,                      \* where each caller (api_request call, timer) is suspended
    call_args,               \* method, endpoint and data of each api_request call
    retry,                   \* the retry argument of the api_request call running
    attempts,                \* history: the HTTP requests each api_request call has sent
    replies,                 \* history: the replies each api_request call has received
    result,                  \* what each api_request call gave its caller
    refresh_calls,           \* history: refresh_tokens() calls made by each caller
    exchange,                \* the token exchange each caller has sent
    timer_runs,              \* history: refreshes started by the timer of main
    oauth,                   \* WebhookServer.handle_oauth: the exchange_code call it makes
    proc                     \* CallProcessor.process_call: each running call

cfgVars   == <<variant, process_internal_calls, test_phone>>
sessVars  == <<active_channels, created_tasks, lastEvent, bridgeSeen, emitted, nEvents,
               created>>
phoneVars == <<callerid_arg, phone_ret>>
dirVars   == <<channel_arg, context_arg, direction_ret>>
tokenVars == <<access_token, refresh_token, token_file, issued>>
apiVars   == <<tokenVars, pc, call_args, retry, attempts, replies, result, refresh_calls,
               exchange, timer_runs>>
oauthVars == <<oauth>>
procVars  == <<proc>>
vars      == <<cfgVars, sessVars, phoneVars, dirVars, apiVars, oauthVars, procVars>>

\* what the actions of one part leave alone
sessFrame  == <<cfgVars, phoneVars, dirVars, apiVars, oauthVars, procVars>>
phoneFrame == <<cfgVars, sessVars, dirVars, apiVars, oauthVars, procVars>>
dirFrame   == <<cfgVars, sessVars, phoneVars, apiVars, oauthVars, procVars>>
apiFrame   == <<cfgVars, sessVars, phoneVars, dirVars, oauthVars, procVars>>
oauthFrame == <<cfgVars, sessVars, phoneVars, dirVars, procVars>>
procFrame  == <<cfgVars, sessVars, phoneVars, dirVars, apiVars, oauthVars>>

---------------------------------------------------------------------------
(* Bounds *)

MaxEvents == 3
MaxCallerIdLen == 12
MaxTimerRuns == 1
MaxOauthCalls == 2
MaxSyncEvents == 4

(* Program constants *)

DaySeconds == 86400
MinPhoneDigits == 10
TrunkPrefixLen == 11

---------------------------------------------------------------------------
(* Optional values *)

None == <<>>
Some(v) == <<v>>
IsNone(o) == Len(o) = 0
Val(o) == o[1]

Variants == {"integration", "integration_debug"}

---------------------------------------------------------------------------
(* Character data *)

Digits == {"0", "1", "2", "3", "4", "5", "6", "7", "8", "9"}

\* str.isdigit, on the characters the model uses
IsDigit(c) == c \in Digits

\* str.lower, on the characters the model uses
LowerChar(c) ==
    CASE c = "A" -> "a" [] c = "C" -> "c" [] c = "D" -> "d" [] c = "E" -> "e"
      [] c = "F" -> "f" [] c = "H" -> "h" [] c = "I" -> "i" [] c = "J" -> "j"
      [] c = "L" -> "l" [] c = "M" -> "m" [] c = "N" -> "n" [] c = "O" -> "o"
      [] c = "P" -> "p" [] c = "R" -> "r" [] c = "S" -> "s" [] c = "T" -> "t"
      [] c = "X" -> "x" [] OTHER -> c

Lower(s) == [i \in 1..Len(s) |-> LowerChar(s[i])]

\* Python's `needle in hay` on strings
Contains(hay, needle) ==
    \E i \in 0..(Len(hay) - Len(needle)) :
        \A j \in 1..Len(needle) : hay[i + j] = needle[j]

MarkTrunk ==
    <<"f", "r", "o", "m", "-", "t", "r", "u", "n", "k">>
MarkPstn ==
    <<"f", "r", "o", "m", "-", "p", "s", "t", "n">>
MarkInternal ==
    <<"f", "r", "o", "m", "-", "i", "n", "t", "e", "r", "n", "a", "l">>
MarkExtLocal ==
    <<"e", "x", "t", "-", "l", "o", "c", "a", "l">>

---------------------------------------------------------------------------
(* extract_phone *)

RECURSIVE FilterDigits(_)
\* ''.join(filter(str.isdigit, callerid))
FilterDigits(s) ==
    IF s = <<>> THEN <<>>
    ELSE IF IsDigit(Head(s)) THEN <<Head(s)>> \o FilterDigits(Tail(s))
         ELSE FilterDigits(Tail(s))

\* mutant of RussianPrefix: the length is not looked at
RussianPrefix_AnyLength(phone) ==
    IF Len(phone) > 0 /\ phone[1] = "8" THEN <<"7">> \o Tail(phone) ELSE phone

\* phone.startswith("8") and len(phone) == 11  ->  "7" + phone[1:]
RussianPrefix(phone) ==
    IF Len(phone) > 0 /\ phone[1] = "8" /\ Len(phone) = TrunkPrefixLen
    THEN <<"7">> \o Tail(phone)
    ELSE phone

\* return phone if len(phone) >= 10 else None
AcceptPhone(phone) ==
    IF Len(phone) >= MinPhoneDigits THEN Some(phone) ELSE None

extract_phone(call) ==
    AcceptPhone(RussianPrefix(FilterDigits(call.callerid)))

---------------------------------------------------------------------------
(* detect_direction *)

\* src/integration.py: the channel name only
detect_direction_channel(channel) ==
    LET channel_lower == Lower(channel) IN
    IF Contains(channel_lower, MarkTrunk) \/ Contains(channel_lower, MarkPstn)
    THEN "inbound"
    ELSE IF Contains(channel_lower, MarkInternal) THEN "outbound"
    ELSE "unknown"

\* mutant of detect_direction_context: from-internal is tested before the
\* trunk markers of the context
detect_direction_context_InternalFirst(channel, context) ==
    LET channel_lower == Lower(channel)
        context_lower == Lower(context) IN
    IF Contains(channel_lower, MarkTrunk) \/ Contains(channel_lower, MarkPstn)
    THEN "inbound"
    ELSE IF Contains(channel_lower, MarkInternal) \/ Contains(context_lower, MarkInternal)
    THEN "outbound"
    ELSE IF Contains(context_lower, MarkTrunk) \/ Contains(context_lower, MarkPstn)
    THEN "inbound"
    ELSE IF Contains(context_lower, MarkExtLocal) THEN "internal"
    ELSE "unknown"

\* src/integration_debug.py: channel name and context
detect_direction_context(channel, context) ==
    LET channel_lower == Lower(channel)
        context_lower == Lower(context) IN
    IF Contains(channel_lower, MarkTrunk) \/ Contains(channel_lower, MarkPstn)
    THEN "inbound"
    ELSE IF Contains(context_lower, MarkTrunk) \/ Contains(context_lower, MarkPstn)
    THEN "inbound"
    ELSE IF Contains(channel_lower, MarkInternal) \/ Contains(context_lower, MarkInternal)
    THEN "outbound"
    ELSE IF Contains(context_lower, MarkExtLocal) THEN "internal"
    ELSE "unknown"

\* the call on_new_channel makes in the running variant
detect_direction(v, channel, context) ==
    IF v = "integration" THEN detect_direction_channel(channel)
    ELSE detect_direction_context(channel, context)

---------------------------------------------------------------------------
(* The CRM client: AmoCRMAPI.api_request, refresh_tokens, save_tokens, and  *)
(* the hourly refresh of main.  Caller 0 is the loop of main, callers 1    *)
(* and 2 are api_request calls running as concurrent tasks.  A caller     *)
(* is suspended only where the code awaits network I/O.  Tokens are         *)
(* numbered: pair k is the k-th pair the identity endpoint handed out, 0    *)
(* the pair found in tokens.json at start.                                  *)

Timer == 0
ApiTasks == {1, 2}
Callers == {Timer} \cup ApiTasks

ReqFind == [method |-> "GET", endpoint |-> "contacts?query=", data |-> "none"]
ReqLead == [method |-> "POST", endpoint |-> "leads/unsorted/forms", data |-> "lead"]
Requests == {ReqFind, ReqLead}

\* replies to an API request: an HTTP status, or none (transport failure)
ApiReplies == {Some(200), Some(401), Some(500), None}

\* bool(x) of an optional token
HasToken(o) == ~IsNone(o)

InitApiIdle ==
    /\ access_token = None
    /\ refresh_token = None
    /\ token_file = None
    /\ issued = 0
    /\ pc = [c \in Callers |-> "idle"]
    /\ call_args = [t \in ApiTasks |-> None]
    /\ retry = [t \in ApiTasks |-> TRUE]
    /\ attempts = [t \in ApiTasks |-> <<>>]
    /\ replies = [t \in ApiTasks |-> <<>>]
    /\ result = [t \in ApiTasks |-> "pending"]
    /\ refresh_calls = [c \in Callers |-> 0]
    /\ exchange = [c \in Callers |-> None]
    /\ timer_runs = 0

\* the JSON body of a reply of the identity endpoint, by the token keys it has
TokenBodies == {"both", "access_only", "none"}

\* self.access_token = result["access_token"]; a missing key raises KeyError
StoredAccess(body, pair) ==
    IF body \in {"both", "access_only"} THEN Some(pair) ELSE access_token

\* self.refresh_token = result["refresh_token"], reached after the line above
StoredRefresh(body, pair) ==
    IF body = "both" THEN Some(pair) ELSE refresh_token

\* mutant of StoredFile: the file is written before the new pair is assigned
StoredFile_BeforeAssign(body, saved, pair) ==
    IF body = "both" /\ saved
    THEN Some([access_token |-> access_token, refresh_token |-> refresh_token])
    ELSE token_file

\* save_tokens(), reached when both keys were read; it may fail to write
StoredFile(body, saved, pair) ==
    IF body = "both" /\ saved
    THEN Some([access_token |-> Some(pair), refresh_token |-> Some(pair)])
    ELSE token_file

\* the token exchange ran to its end without raising
ExchangeReturned(body, saved) == body = "both" /\ saved

\* mutant of HttpAttempt: the retry reuses the headers of the first attempt
HttpAttempt_StaleHeaders(t, request) ==
    [request |-> request,
     bearer |-> IF attempts[t] # <<>> THEN attempts[t][1].bearer ELSE access_token]

\* the request api_request sends: its arguments with the token held right now
HttpAttempt(t, request) == [request |-> request, bearer |-> access_token]

\* api_request(method, endpoint, data): headers are built, the request is sent
ApiRequestStart(t, request) ==
    /\ pc[t] = "idle"
    /\ call_args' = [call_args EXCEPT ![t] = Some(request)]
    /\ attempts' = [attempts EXCEPT ![t] = Append(@, HttpAttempt(t, request))]
    /\ pc' = [pc EXCEPT ![t] = "wait"]
    /\ UNCHANGED <<tokenVars, retry, replies, result, refresh_calls, exchange,
                   timer_runs, apiFrame>>

\* what api_request returns for a reply it does not retry
ApiOutcome(reply) ==
    IF IsNone(reply) THEN "raised"
    ELSE IF Val(reply) >= 400 THEN "None"
    ELSE "json"

\* mutant of RetryBranch: the retry argument is not looked at
RetryBranch_IgnoresFlag(reply, retry_arg) == ~IsNone(reply) /\ Val(reply) = 401

\* mutant of RetryBranch: every error status is retried after a refresh
RetryBranch_AnyError(reply, retry_arg) == ~IsNone(reply) /\ Val(reply) >= 400 /\ retry_arg

\* the condition of the retry branch: resp.status == 401 and retry
RetryBranch(reply, retry_arg) == ~IsNone(reply) /\ Val(reply) = 401 /\ retry_arg

\* refresh_tokens() up to its await: the exchange posted with the refresh token held
PostExchange(c) ==
    /\ exchange' = [exchange EXCEPT ![c] =
                       Some([sent |-> refresh_token, pair |-> issued + 1,
                             state |-> "in_flight"])]
    /\ issued' = issued + 1
    /\ refresh_calls' = [refresh_calls EXCEPT ![c] = @ + 1]

\* the reply to the request in flight, first attempt or retry
ApiReply(t, reply) ==
    /\ pc[t] = "wait"
    /\ replies' = [replies EXCEPT ![t] = Append(@, reply)]
    /\ IF RetryBranch(reply, retry[t])
       THEN /\ PostExchange(t)
            /\ pc' = [pc EXCEPT ![t] = "refresh_wait"]
            /\ UNCHANGED <<access_token, refresh_token, token_file, result>>
       ELSE /\ result' = [result EXCEPT ![t] = ApiOutcome(reply)]
            /\ pc' = [pc EXCEPT ![t] = "done"]
            /\ UNCHANGED <<tokenVars, refresh_calls, exchange>>
    /\ UNCHANGED <<call_args, retry, attempts, timer_runs, apiFrame>>

\* mutant of AfterRefresh: api_request retries whether or not the refresh raised
AfterRefresh_AlwaysRetry(c, returned) == IF c = Timer THEN "idle" ELSE "refreshed"

\* where a caller goes on when its refresh_tokens() has returned or raised
AfterRefresh(c, returned) ==
    IF c = Timer THEN "idle"
    ELSE IF returned THEN "refreshed"
    ELSE "done"

\* how a token exchange ended, by the body of its reply and the fate of the save
ExchangeState(body, saved) ==
    CASE body = "both" /\ saved -> "stored"
      [] body = "both" /\ ~saved -> "unsaved"
      [] body = "access_only" -> "partial"
      [] OTHER -> "failed"

\* the record of a caller's exchange once its reply is handled
ExchangeDone(c, state) == Some([Val(exchange[c]) EXCEPT !.state = state])

\* the reply to the token exchange of refresh_tokens(): the status is not looked
\* at; result["access_token"] and result["refresh_token"] are stored one after
\* the other and save_tokens() writes them; a missing key or a failing write
\* raises at that point, and no reply at all raises before anything is stored
ExchangeReply(c, body, saved) ==
    /\ pc[c] = "refresh_wait"
    /\ LET pair == Val(exchange[c]).pair IN
       /\ access_token' = StoredAccess(body, pair)
       /\ refresh_token' = StoredRefresh(body, pair)
       /\ token_file' = StoredFile(body, saved, pair)
       /\ exchange' = [exchange EXCEPT ![c] =
                          ExchangeDone(c, ExchangeState(body, saved))]
    /\ pc' = [pc EXCEPT ![c] = AfterRefresh(c, ExchangeReturned(body, saved))]
    /\ result' = IF c # Timer /\ ~ExchangeReturned(body, saved)
                 THEN [result EXCEPT ![c] = "raised"]
                 ELSE result
    /\ UNCHANGED <<issued, call_args, retry, attempts, replies, refresh_calls,
                   timer_runs, apiFrame>>

\* return await self.api_request(method, endpoint, data, False)
ApiRequestRetry(t) ==
    /\ pc[t] = "refreshed"
    /\ retry' = [retry EXCEPT ![t] = FALSE]
    /\ attempts' = [attempts EXCEPT ![t] =
                       Append(@, HttpAttempt(t, Val(call_args[t])))]
    /\ pc' = [pc EXCEPT ![t] = "wait"]
    /\ UNCHANGED <<tokenVars, call_args, replies, result, refresh_calls, exchange,
                   timer_runs, apiFrame>>

\* the condition under which the loop of main calls refresh_tokens()
TimerCondition ==
    variant = "integration" \/ HasToken(refresh_token)

\* main: datetime.now().minute == 0, so refresh_tokens() is called
TimerRefresh ==
    /\ pc[Timer] = "idle"
    /\ timer_runs < MaxTimerRuns
    /\ TimerCondition
    /\ PostExchange(Timer)
    /\ timer_runs' = timer_runs + 1
    /\ pc' = [pc EXCEPT ![Timer] = "refresh_wait"]
    /\ UNCHANGED <<access_token, refresh_token, token_file, call_args, retry,
                   attempts, replies, result, apiFrame>>

---------------------------------------------------------------------------
(* The OAuth callback: WebhookServer.handle_oauth and AmoCRMAPI.exchange_code *)

\* replies of the identity endpoint: an HTTP status, or none (transport failure)
IdentityReplies == {Some(200), Some(400), None}

\* request.query.get('code')
OauthCodes == {None, Some("code")}

InitOauthIdle ==
    oauth = [pc |-> "idle", calls |-> 0, pair |-> None, reply |-> None,
             body |-> "none", saved |-> FALSE, result |-> "pending"]

\* mutant of ExchangeCodeRejects: the status is not looked at, as in refresh_tokens
ExchangeCodeRejects_NoStatusCheck(reply) == IsNone(reply)

\* exchange_code raises before reading the body: resp.status != 200, or no reply
ExchangeCodeRejects(reply) == IsNone(reply) \/ Val(reply) # 200

\* handle_oauth: without a code it answers 400 at once, with one it calls
\* exchange_code(code), which posts the authorization-code grant
OauthStart(code) ==
    /\ oauth.pc \in {"idle", "done"}
    /\ oauth.calls < MaxOauthCalls
    /\ IF IsNone(code)
       THEN /\ oauth' = [oauth EXCEPT !.pc = "done", !.calls = @ + 1, !.pair = None,
                                      !.reply = None, !.body = "none",
                                      !.saved = FALSE, !.result = "no_code"]
            /\ UNCHANGED issued
       ELSE /\ oauth' = [oauth EXCEPT !.pc = "wait", !.calls = @ + 1,
                                      !.pair = Some(issued + 1), !.reply = None,
                                      !.body = "none", !.saved = FALSE,
                                      !.result = "pending"]
            /\ issued' = issued + 1
    /\ UNCHANGED <<access_token, refresh_token, token_file, pc, call_args, retry,
                   attempts, replies, result, refresh_calls, exchange, timer_runs,
                   oauthFrame>>

\* the reply to exchange_code's post; handle_oauth turns an exception into a
\* 500 response and a return into a success response
OauthReply(reply, body, saved) ==
    /\ oauth.pc = "wait"
    /\ IF ExchangeCodeRejects(reply)
       THEN /\ oauth' = [oauth EXCEPT !.pc = "done", !.reply = reply, !.body = body,
                                      !.saved = saved, !.result = "raised"]
            /\ UNCHANGED <<access_token, refresh_token, token_file>>
       ELSE /\ access_token' = StoredAccess(body, Val(oauth.pair))
            /\ refresh_token' = StoredRefresh(body, Val(oauth.pair))
            /\ token_file' = StoredFile(body, saved, Val(oauth.pair))
            /\ oauth' = [oauth EXCEPT !.pc = "done", !.reply = reply, !.body = body,
                                      !.saved = saved,
                                      !.result = IF ExchangeReturned(body, saved)
                                                 THEN "returned" ELSE "raised"]
    /\ UNCHANGED <<issued, pc, call_args, retry, attempts, replies, result,
                   refresh_calls, exchange, timer_runs, oauthFrame>>

---------------------------------------------------------------------------
(* Inputs of the switch events *)

CidDashed ==
    <<"8", "-", "9", "1", "6", "-", "1", "2", "3", "-", "4", "5", "-", "6", "7">>
CidShort ==
    <<"1", "2", "3">>
TestPhoneShort ==
    <<"1", "0", "0">>
TestPhoneValid ==
    <<"7", "9", "9", "9", "1", "2", "3", "4", "5", "6", "7">>
ChTrunk ==
    <<"S", "I", "P", "/", "f", "r", "o", "m", "-", "t", "r", "u", "n", "k", "-",
      "0", "0", "0", "1">>
ChInternal ==
    <<"S", "I", "P", "/", "f", "r", "o", "m", "-", "i", "n", "t", "e", "r", "n",
      "a", "l", "-", "0", "0", "0", "2">>
ChPlain ==
    <<"P", "J", "S", "I", "P", "/", "1", "0", "1", "-", "0", "0", "0", "3">>
ChPstnUpper ==
    <<"D", "A", "H", "D", "I", "/", "F", "R", "O", "M", "-", "P", "S", "T", "N",
      "-", "1">>
CtxExtLocal ==
    <<"e", "x", "t", "-", "l", "o", "c", "a", "l">>
CtxExtLocalUpper ==
    <<"E", "X", "T", "-", "L", "O", "C", "A", "L">>
CtxFromInternal ==
    <<"f", "r", "o", "m", "-", "i", "n", "t", "e", "r", "n", "a", "l">>
CtxFromTrunk ==
    <<"f", "r", "o", "m", "-", "t", "r", "u", "n", "k">>
CtxPstnMixed ==
    <<"F", "r", "o", "m", "-", "P", "S", "T", "N">>
CtxInternalLocal ==
    <<"f", "r", "o", "m", "-", "i", "n", "t", "e", "r", "n", "a", "l", "-", "e",
      "x", "t", "-", "l", "o", "c", "a", "l">>
CtxDefault ==
    <<"d", "e", "f", "a", "u", "l", "t">>

Ids == {1, 2}

\* readings of datetime.now(): a wall clock, which may also be set back
Times == {0, 7, DaySeconds + 7}

EventCallerIds == {CidDashed, CidShort}
EventChannels == {ChTrunk, ChPlain}
EventContexts == {CtxExtLocal}

\* Cause-txt of a Hangup event; "UNKNOWN" is the handler's default when absent
CauseTexts == {"Normal Clearing", "UNKNOWN"}

\* debug.test_phone: absent, a full number, or whatever else was configured
TestPhones == {None, Some(TestPhoneValid), Some(TestPhoneShort)}

---------------------------------------------------------------------------
(* The session engine: AsteriskAMIHandler *)

\* mutant of DictPut: an existing entry is updated in place, field by field
DictPut_Merge(d, k, v) ==
    [x \in (DOMAIN d) \cup {k} |->
        IF x # k THEN d[x]
        ELSE IF k \in DOMAIN d
        THEN [v EXCEPT !.connected = d[k].connected, !.answer_time = d[k].answer_time]
        ELSE v]

\* d[k] = v on a Python dict
DictPut(d, k, v) == [x \in (DOMAIN d) \cup {k} |-> IF x = k THEN v ELSE d[x]]

\* mutant of DictDel: the whole table is emptied
DictDel_Clear(d, k) == <<>>

\* mutant of DictDel: the entry is never deleted
DictDel_Forgotten(d, k) == d

\* del d[k]
DictDel(d, k) == [x \in (DOMAIN d) \ {k} |-> d[x]]

\* (end_time - answer_time).seconds : the seconds field of a normalised timedelta
TimedeltaSeconds(end_time, answer_time) == (end_time - answer_time) % DaySeconds

\* datetime.isoformat(): the text of the time stamp, one text per time
isoformat(t) == [iso |-> t]

\* bool(x) of an optional string: None and "" are false
Truthy(o) == ~IsNone(o) /\ Len(Val(o)) > 0

\* the event being handled, and the entry its id had when it arrived
History(type, id, t, cause_txt) ==
    [type |-> type, id |-> id, time |-> t, cause_txt |-> cause_txt,
     call |-> IF id \in DOMAIN active_channels THEN Some(active_channels[id])
              ELSE None,
     preTasks |-> Len(created_tasks)]

\* the entry on_new_channel stores
NewSession(channel, callerid, context, t) ==
    [callerid |-> callerid,
     context |-> IF variant = "integration" THEN None ELSE Some(context),
     start_time |-> t,
     direction |-> detect_direction(variant, channel, context),
     connected |-> FALSE,
     answer_time |-> None]

on_new_channel(id, channel, callerid, context, t) ==
    /\ active_channels' = DictPut(active_channels, id,
                                  NewSession(channel, callerid, context, t))
    /\ lastEvent' = History("NewChannel", id, t, "")
    /\ bridgeSeen' = [bridgeSeen EXCEPT ![id] = FALSE]
    /\ emitted' = [emitted EXCEPT ![id] = 0]
    /\ nEvents' = nEvents + 1
    /\ created' = [created EXCEPT ![id] =
                      Some([channel |-> channel, callerid |-> callerid,
                            context |-> context, time |-> t])]
    /\ UNCHANGED <<created_tasks, sessFrame>>

\* mutant of Bridged: the start time is moved to the answer as well
Bridged_MovesStart(call, t) ==
    [call EXCEPT !.connected = TRUE, !.answer_time = Some(t), !.start_time = t]

\* the entry after on_bridge_enter
Bridged(call, t) == [call EXCEPT !.connected = TRUE, !.answer_time = Some(t)]

\* mutant of BridgeEnterTable: the entry is written whether or not the id is known
BridgeEnterTable_Unguarded(id, t) ==
    DictPut(active_channels, id,
            IF id \in DOMAIN active_channels
            THEN Bridged(active_channels[id], t)
            ELSE [connected |-> TRUE, answer_time |-> Some(t)])

\* the table after on_bridge_enter: only an id in the table is touched
BridgeEnterTable(id, t) ==
    IF id \in DOMAIN active_channels
    THEN [active_channels EXCEPT ![id] = Bridged(active_channels[id], t)]
    ELSE active_channels

on_bridge_enter(id, t) ==
    /\ active_channels' = BridgeEnterTable(id, t)
    /\ lastEvent' = History("BridgeEnter", id, t, "")
    /\ bridgeSeen' = [bridgeSeen EXCEPT ![id] = TRUE]
    /\ nEvents' = nEvents + 1
    /\ UNCHANGED <<created_tasks, emitted, created, sessFrame>>

\* mutant of CallDuration: an unanswered call is timed from its start
CallDuration_FromStart(call, end_time) ==
    IF ~IsNone(call.answer_time)
    THEN TimedeltaSeconds(end_time, Val(call.answer_time))
    ELSE TimedeltaSeconds(end_time, call.start_time)

\* duration and status computed by on_hangup
CallDuration(call, end_time) ==
    IF ~IsNone(call.answer_time)
    THEN TimedeltaSeconds(end_time, Val(call.answer_time))
    ELSE 0

CallStatus(call, cause_txt) ==
    IF ~IsNone(call.answer_time) THEN "ANSWERED" ELSE cause_txt

\* mutant of HangupPhone: the test phone is used without asking the switch
HangupPhone_IgnoresSwitch(call) ==
    LET phone == extract_phone(call) IN
    IF variant = "integration_debug" /\ IsNone(phone) /\ Truthy(test_phone)
    THEN test_phone
    ELSE phone

\* the phone on_hangup goes on with: extract_phone, and in integration_debug.py
\* the configured test phone for a call whose number could not be extracted
HangupPhone(call) ==
    LET phone == extract_phone(call) IN
    IF variant = "integration_debug" /\ IsNone(phone)
       /\ process_internal_calls /\ Truthy(test_phone)
    THEN test_phone
    ELSE phone

CallData(id, call, phone, end_time, cause_txt) ==
    [phone |-> Val(phone),
     direction |-> call.direction,
     duration |-> CallDuration(call, end_time),
     status |-> CallStatus(call, cause_txt),
     uniqueid |-> id,
     timestamp |-> isoformat(call.start_time),
     internal_call |-> IF variant = "integration" THEN None
                       ELSE Some(Len(call.callerid) <= 4)]

on_hangup(id, cause_txt, t) ==
    /\ lastEvent' = History("Hangup", id, t, cause_txt)
    /\ nEvents' = nEvents + 1
    /\ created' = [created EXCEPT ![id] = None]
    /\ IF id \notin DOMAIN active_channels
       THEN UNCHANGED <<active_channels, created_tasks, emitted>>
       ELSE LET call == active_channels[id]
                phone == HangupPhone(call) IN
            IF ~Truthy(phone)
            THEN /\ active_channels' = DictDel(active_channels, id)
                 /\ UNCHANGED <<created_tasks, emitted>>
            ELSE /\ created_tasks' =
                        Append(created_tasks, CallData(id, call, phone, t, cause_txt))
                 /\ emitted' = [emitted EXCEPT ![id] = @ + 1]
                 /\ active_channels' = DictDel(active_channels, id)
    /\ UNCHANGED <<bridgeSeen, sessFrame>>

---------------------------------------------------------------------------
(* The call processor: CallProcessor.process_call with the AmoCRMAPI methods *)
(* it calls.  A call is suspended where it awaits the CRM; api_request is    *)
(* taken by what it gives back: parsed JSON, None, or an exception.          *)

ProcTasks == {1, 2}

\* call_data handed to process_call: by on_hangup, or posted to /webhook/call
FactValid ==
    [phone |-> <<"7", "9", "1", "6", "1", "2", "3", "4", "5", "6", "7">>, uniqueid |-> 1]
FactShort ==
    [phone |-> CidShort, uniqueid |-> 2]
ProcFacts == {FactValid, FactShort}

ApiResults == {"json", "None", "raised"}

\* find_recording(uniqueid): the newest matching file, or None
Recordings == {None, Some("monitor/rec.wav")}

\* replies to the upload of the recording: an HTTP status, or none (the file
\* could not be read, or the transport failed)
UploadReplies == {Some(200), Some(500), None}

ContactId == "contact"

InitProcIdle ==
    proc = [p \in ProcTasks |->
               [pc |-> "idle", call_data |-> None, lookup |-> None, contact |-> None,
                recording_path |-> None, ops |-> <<>>, note |-> None,
                upload |-> None, notes |-> 0, files |-> 0, leads |-> 0,
                result |-> "pending", started_at |-> 0]]

\* mutant of Finish: a call that failed is queued again
Finish_RequeueOnError(rec, outcome) ==
    IF outcome = "raised" THEN [rec EXCEPT !.pc = "idle"]
    ELSE [rec EXCEPT !.pc = "done", !.result = outcome]

\* process_call is over: it returned, or an exception left it
Finish(rec, outcome) == [rec EXCEPT !.pc = "done", !.result = outcome]

\* mutant of UploadOutcome: a failed upload raises to add_call_to_contact
UploadOutcome_RaisesOnError(reply) ==
    IF reply = Some(200) THEN "returned" ELSE "raised"

\* upload_recording: try / except Exception around everything, nothing returned
UploadOutcome(reply) == "returned"

\* mutant of FindContactResult: any parsed answer counts as a contact
FindContactResult_AnyJson(outcome, has_contacts) ==
    IF outcome = "json" THEN Some(ContactId) ELSE None

\* find_contact: result and result.get("_embedded", {}).get("contacts")
FindContactResult(outcome, has_contacts) ==
    IF outcome = "json" /\ has_contacts THEN Some(ContactId) ELSE None

\* mutant of UploadDue: the upload does not depend on a recording
UploadDue_Always(recording_path, exists) == TRUE

\* add_call_to_contact: recording_path and os.path.exists(recording_path)
UploadDue(recording_path, exists) == ~IsNone(recording_path) /\ exists

\* process_call(call_data) up to the await in find_contact
ProcessCallStart(p, call_data) ==
    /\ proc[p].pc = "idle"
    /\ proc' = [proc EXCEPT ![p] =
                   [@ EXCEPT !.pc = "find_wait",
                             !.call_data = Some(call_data),
                             !.started_at = nEvents,
                             !.ops = Append(@, [op |-> "find_contact",
                                                arg |-> FilterDigits(call_data.phone)])]]
    /\ UNCHANGED procFrame

\* find_contact has its answer: no contact leads to create_unsorted(phone), a
\* contact to find_recording(uniqueid) and the note request of add_call_to_contact
FindContactReply(p, outcome, has_contacts, recording) ==
    /\ proc[p].pc = "find_wait"
    /\ LET contact == FindContactResult(outcome, has_contacts)
           phone == Val(proc[p].call_data).phone
           seen == [proc[p] EXCEPT !.lookup = Some([outcome |-> outcome,
                                                    has_contacts |-> has_contacts])]
       IN proc' = [proc EXCEPT ![p] =
              IF outcome = "raised"
              THEN Finish(seen, "raised")
              ELSE IF IsNone(contact)
              THEN [seen EXCEPT !.pc = "lead_wait",
                                !.ops = Append(@, [op |-> "create_unsorted",
                                                   arg |-> phone])]
              ELSE [seen EXCEPT !.pc = "note_wait",
                                !.contact = contact,
                                !.recording_path = recording,
                                !.ops = @ \o <<[op |-> "find_recording", arg |-> <<>>],
                                               [op |-> "add_note", arg |-> phone]>>]]
    /\ UNCHANGED procFrame

\* create_unsorted has its answer: process_call returns
LeadReply(p, outcome) ==
    /\ proc[p].pc = "lead_wait"
    /\ proc' = [proc EXCEPT ![p] =
                   Finish([@ EXCEPT !.leads = IF outcome = "json" THEN @ + 1 ELSE @],
                          IF outcome = "raised" THEN "raised" ELSE "returned")]
    /\ UNCHANGED procFrame

\* the note request has its answer: then the recording is uploaded if there is one
NoteReply(p, outcome, exists) ==
    /\ proc[p].pc = "note_wait"
    /\ LET seen == [proc[p] EXCEPT !.note = Some(outcome),
                                   !.notes = IF outcome = "json" THEN @ + 1 ELSE @]
       IN proc' = [proc EXCEPT ![p] =
              IF outcome = "raised"
              THEN Finish(seen, "raised")
              ELSE IF UploadDue(proc[p].recording_path, exists)
              THEN [seen EXCEPT !.pc = "upload_wait",
                                !.ops = Append(@, [op |-> "upload", arg |-> <<>>])]
              ELSE Finish(seen, "returned")]
    /\ UNCHANGED procFrame

\* upload_recording has its answer; every failure is logged and swallowed
UploadReply(p, reply) ==
    /\ proc[p].pc = "upload_wait"
    /\ proc' = [proc EXCEPT ![p] =
                   Finish([@ EXCEPT !.upload = Some(reply),
                                    !.files = IF reply = Some(200) THEN @ + 1 ELSE @],
                          UploadOutcome(reply))]
    /\ UNCHANGED procFrame

---------------------------------------------------------------------------
(* Specification of the session engine *)

InitConfig ==
    /\ variant \in Variants
    /\ process_internal_calls \in
           (IF variant = "integration" THEN {FALSE} ELSE BOOLEAN)
    /\ test_phone \in (IF variant = "integration" THEN {None} ELSE TestPhones)

InitSession ==
    /\ active_channels = <<>>
    /\ created_tasks = <<>>
    /\ lastEvent = [type |-> "none", id |-> 0, time |-> 0, cause_txt |-> "",
                    call |-> None, preTasks |-> 0]
    /\ bridgeSeen = [id \in Ids |-> FALSE]
    /\ emitted = [id \in Ids |-> 0]
    /\ nEvents = 0
    /\ created = [id \in Ids |-> None]

InitPhoneIdle ==
    /\ callerid_arg = <<>>
    /\ phone_ret = None

InitDirIdle ==
    /\ channel_arg = <<>>
    /\ context_arg = <<>>
    /\ direction_ret = None

Init ==
    /\ InitConfig
    /\ InitSession
    /\ InitPhoneIdle
    /\ InitDirIdle
    /\ InitApiIdle
    /\ InitOauthIdle
    /\ InitProcIdle

NewChannelEvent ==
    /\ nEvents < MaxEvents
    /\ \E id \in Ids, channel \in EventChannels, callerid \in EventCallerIds,
          context \in EventContexts, t \in Times :
           on_new_channel(id, channel, callerid, context, t)

BridgeEnterEvent ==
    /\ nEvents < MaxEvents
    /\ \E id \in Ids, t \in Times : on_bridge_enter(id, t)

HangupEvent ==
    /\ nEvents < MaxEvents
    /\ \E id \in Ids, cause_txt \in CauseTexts, t \in Times :
           on_hangup(id, cause_txt, t)

Next ==
    \/ NewChannelEvent
    \/ BridgeEnterEvent
    \/ HangupEvent

Spec == Init /\ [][Next]_vars

---------------------------------------------------------------------------
(* Specification of extract_phone alone: a caller id is typed character by *)
(* character and extract_phone is called on it.                            *)

PhoneAlphabet == {"8", "1", "-"}

TypeChar(c) ==
    /\ IsNone(phone_ret)
    /\ Len(callerid_arg) < MaxCallerIdLen
    /\ callerid_arg' = Append(callerid_arg, c)
    /\ UNCHANGED <<phone_ret, phoneFrame>>

CallExtractPhone ==
    /\ IsNone(phone_ret)
    /\ phone_ret' = Some(extract_phone([callerid |-> callerid_arg]))
    /\ UNCHANGED <<callerid_arg, phoneFrame>>

\* typing starts from the empty caller id or from one of the documented examples
InitPhone ==
    /\ variant = "integration"
    /\ process_internal_calls = FALSE
    /\ test_phone = None
    /\ InitSession
    /\ callerid_arg \in {<<>>, CidDashed, CidShort}
    /\ phone_ret = None
    /\ InitDirIdle
    /\ InitApiIdle
    /\ InitOauthIdle
    /\ InitProcIdle

NextPhone ==
    \/ \E c \in PhoneAlphabet : TypeChar(c)
    \/ CallExtractPhone

SpecPhone == InitPhone /\ [][NextPhone]_vars

---------------------------------------------------------------------------
(* Specification of detect_direction alone: one call on a channel name and *)
(* a context of a NewChannel event, in either source variant.              *)

DirChannels == {ChTrunk, ChInternal, ChPlain, ChPstnUpper}
DirContexts == {<<>>, CtxExtLocal, CtxExtLocalUpper, CtxFromInternal, CtxFromTrunk,
                CtxPstnMixed, CtxInternalLocal, CtxDefault}

CallDetectDirection ==
    /\ IsNone(direction_ret)
    /\ direction_ret' = Some(detect_direction(variant, channel_arg, context_arg))
    /\ UNCHANGED <<channel_arg, context_arg, dirFrame>>

InitDirection ==
    /\ variant \in Variants
    /\ process_internal_calls = FALSE
    /\ test_phone = None
    /\ InitSession
    /\ InitPhoneIdle
    /\ channel_arg \in DirChannels
    /\ context_arg \in DirContexts
    /\ direction_ret = None
    /\ InitApiIdle
    /\ InitOauthIdle
    /\ InitProcIdle

NextDirection == CallDetectDirection

SpecDirection == InitDirection /\ [][NextDirection]_vars

---------------------------------------------------------------------------
(* Specification of the CRM client: concurrent api_request calls and the  *)
(* timer of main, against a CRM and an identity endpoint that may answer  *)
(* anything.                                                              *)

\* the tokens after load_tokens(): no tokens.json, or the pair stored in it
InitTokens ==
    \/ /\ access_token = None
       /\ refresh_token = None
       /\ token_file = None
    \/ /\ access_token = Some(0)
       /\ refresh_token = Some(0)
       /\ token_file = Some([access_token |-> Some(0), refresh_token |-> Some(0)])

InitApi ==
    /\ variant \in Variants
    /\ process_internal_calls = FALSE
    /\ test_phone = None
    /\ InitSession
    /\ InitPhoneIdle
    /\ InitDirIdle
    /\ InitTokens
    /\ issued = 0
    /\ pc = [c \in Callers |-> "idle"]
    /\ call_args = [t \in ApiTasks |-> None]
    /\ retry = [t \in ApiTasks |-> TRUE]
    /\ attempts = [t \in ApiTasks |-> <<>>]
    /\ replies = [t \in ApiTasks |-> <<>>]
    /\ result = [t \in ApiTasks |-> "pending"]
    /\ refresh_calls = [c \in Callers |-> 0]
    /\ exchange = [c \in Callers |-> None]
    /\ timer_runs = 0
    /\ InitOauthIdle
    /\ InitProcIdle

NextApi ==
    \/ \E t \in ApiTasks, request \in Requests : ApiRequestStart(t, request)
    \/ \E t \in ApiTasks, reply \in ApiReplies : ApiReply(t, reply)
    \/ \E c \in Callers, body \in TokenBodies, saved \in BOOLEAN :
           ExchangeReply(c, body, saved)
    \/ \E t \in ApiTasks : ApiRequestRetry(t)
    \/ TimerRefresh

SpecApi == InitApi /\ [][NextApi]_vars

---------------------------------------------------------------------------
(* Specification of the token life cycle: the OAuth callback and the hourly *)
(* refresh of main, against an identity endpoint that may answer anything.  *)

NextAuth ==
    \/ \E code \in OauthCodes : OauthStart(code)
    \/ \E reply \in IdentityReplies, body \in TokenBodies, saved \in BOOLEAN :
           OauthReply(reply, body, saved)
    \/ TimerRefresh
    \/ \E body \in TokenBodies, saved \in BOOLEAN : ExchangeReply(Timer, body, saved)

SpecAuth == InitApi /\ [][NextAuth]_vars

---------------------------------------------------------------------------
(* Specification of the call processor: process_call tasks running          *)
(* concurrently against a CRM that may answer anything.                     *)

InitProc ==
    /\ variant \in Variants
    /\ process_internal_calls = FALSE
    /\ test_phone = None
    /\ InitSession
    /\ InitPhoneIdle
    /\ InitDirIdle
    /\ InitApiIdle
    /\ InitOauthIdle
    /\ InitProcIdle

NextProc ==
    \/ \E p \in ProcTasks, call_data \in ProcFacts : ProcessCallStart(p, call_data)
    \/ \E p \in ProcTasks, outcome \in ApiResults, has_contacts \in BOOLEAN,
          recording \in Recordings :
           FindContactReply(p, outcome, has_contacts, recording)
    \/ \E p \in ProcTasks, outcome \in ApiResults : LeadReply(p, outcome)
    \/ \E p \in ProcTasks, outcome \in ApiResults, exists \in BOOLEAN :
           NoteReply(p, outcome, exists)
    \/ \E p \in ProcTasks, reply \in UploadReplies : UploadReply(p, reply)

SpecProc == InitProc /\ [][NextProc]_vars

---------------------------------------------------------------------------
(* Specification of the session engine together with the process_call      *)
(* tasks it creates: on_hangup hands call_data to asyncio.create_task and   *)
(* returns; the k-th task created runs the k-th call_data.                  *)

\* mutant of HandlerReady: on_hangup awaits process_call, so the next event is
\* handled only when every task created so far is over
HandlerReady_AwaitsTasks ==
    \A p \in ProcTasks : p <= Len(created_tasks) => proc[p].pc = "done"

\* no handler awaits a task it created: an event is handled whatever the
\* tasks are doing
HandlerReady == TRUE

SyncNewChannel ==
    /\ nEvents < MaxSyncEvents
    /\ HandlerReady
    /\ \E id \in Ids, callerid \in EventCallerIds :
           on_new_channel(id, ChTrunk, callerid, CtxExtLocal, 0)

SyncBridgeEnter ==
    /\ nEvents < MaxSyncEvents
    /\ HandlerReady
    /\ \E id \in Ids : on_bridge_enter(id, 7)

SyncHangup ==
    /\ nEvents < MaxSyncEvents
    /\ HandlerReady
    /\ \E id \in Ids : on_hangup(id, "Normal Clearing", 7)

\* the task created for the p-th call_data starts running
SyncTaskStart(p) ==
    /\ p <= Len(created_tasks)
    /\ ProcessCallStart(p, created_tasks[p])

NextSync ==
    \/ SyncNewChannel
    \/ SyncBridgeEnter
    \/ SyncHangup
    \/ \E p \in ProcTasks : SyncTaskStart(p)
    \/ \E p \in ProcTasks, outcome \in ApiResults, has_contacts \in BOOLEAN,
          recording \in Recordings :
           FindContactReply(p, outcome, has_contacts, recording)
    \/ \E p \in ProcTasks, outcome \in ApiResults : LeadReply(p, outcome)
    \/ \E p \in ProcTasks, outcome \in ApiResults, exists \in BOOLEAN :
           NoteReply(p, outcome, exists)
    \/ \E p \in ProcTasks, reply \in UploadReplies : UploadReply(p, reply)

SpecSync == InitProc /\ [][NextSync]_vars

---------------------------------------------------------------------------
(* Claims about the session engine (specification Spec) *)

\* the last event was a Hangup of an id that had a session
HangupOfSession == lastEvent.type = "Hangup" /\ ~IsNone(lastEvent.call)

\* the last event created a process_call task; LastFact is its call_data
FactEmitted == Len(created_tasks) = lastEvent.preTasks + 1
LastFact == created_tasks[Len(created_tasks)]

\* C1: on NewChannel(id), BridgeEnter(id)?, Hangup(id) at most one call_data is
\* submitted to process_call for the id, one Hangup submits at most one, and
\* after a Hangup the id is not in active_channels.
C1_AtMostOneFact ==
    /\ \A id \in Ids : emitted[id] <= 1
    /\ Len(created_tasks) <= lastEvent.preTasks + 1
    /\ lastEvent.type = "Hangup" => lastEvent.id \notin DOMAIN active_channels

\* NewChannel, BridgeEnter, Hangup of one id have been handled and one fact was emitted
C1_Witness ==
    /\ HangupOfSession
    /\ nEvents = 3
    /\ bridgeSeen[lastEvent.id]
    /\ emitted[lastEvent.id] = 1
    /\ FactEmitted

\* C2: a Hangup or BridgeEnter whose id is not in active_channels changes neither
\* the table (no session created, none changed) nor the tasks created.
C2_UnknownIdNoOp ==
    [][(/\ nEvents' = nEvents + 1
        /\ lastEvent'.type \in {"Hangup", "BridgeEnter"}
        /\ lastEvent'.id \notin DOMAIN active_channels)
       => (/\ active_channels' = active_channels
           /\ created_tasks' = created_tasks)]_vars

\* a BridgeEnter handled after the Hangup that emitted the id's fact
C2_Witness ==
    /\ lastEvent.type = "BridgeEnter"
    /\ IsNone(lastEvent.call)
    /\ emitted[lastEvent.id] = 1
    /\ lastEvent.id \notin DOMAIN active_channels
    /\ Len(created_tasks) = 1

\* the code substitutes the configured test phone for a number it cannot extract
DebugSubstitution ==
    variant = "integration_debug" /\ process_internal_calls /\ Truthy(test_phone)

InvalidCallerHangup ==
    HangupOfSession /\ IsNone(extract_phone(Val(lastEvent.call)))

\* C3 as stated: a Hangup of a session whose callerId has no valid phone emits
\* no fact and removes the session, in both variants and every configuration.
C3_Original ==
    InvalidCallerHangup =>
        /\ ~FactEmitted
        /\ lastEvent.id \notin DOMAIN active_channels

\* C3 amended: the session is always removed; no fact is emitted unless
\* integration_debug.py runs with debug.process_internal_calls and a non-empty
\* debug.test_phone, and then one fact carrying test_phone is emitted.
C3_InvalidPhoneDropped ==
    InvalidCallerHangup =>
        /\ lastEvent.id \notin DOMAIN active_channels
        /\ IF DebugSubstitution
           THEN FactEmitted /\ LastFact.phone = Val(test_phone)
           ELSE ~FactEmitted

\* integration_debug.py with a test phone configured but the switch off drops the call
C3_Witness ==
    /\ InvalidCallerHangup
    /\ variant = "integration_debug"
    /\ Truthy(test_phone)
    /\ ~process_internal_calls
    /\ ~FactEmitted
    /\ lastEvent.id \notin DOMAIN active_channels

\* C4: a fact for a session with no BridgeEnter since its creating NewChannel has
\* duration 0 and a status other than ANSWERED; with a BridgeEnter it is ANSWERED.
C4_OutcomeFromBridge ==
    (HangupOfSession /\ FactEmitted) =>
        IF bridgeSeen[lastEvent.id]
        THEN LastFact.status = "ANSWERED"
        ELSE LastFact.duration = 0 /\ LastFact.status # "ANSWERED"

\* an unanswered call hung up later than it started
C4_Witness ==
    /\ HangupOfSession
    /\ FactEmitted
    /\ ~bridgeSeen[lastEvent.id]
    /\ lastEvent.time > Val(lastEvent.call).start_time
    /\ LastFact.status = "Normal Clearing"

\* C5 as stated: for an answered session the duration is hangup time minus
\* answer time, for every pair of clock readings.
C5_Original ==
    (HangupOfSession /\ FactEmitted /\ ~IsNone(Val(lastEvent.call).answer_time)) =>
        LastFact.duration = lastEvent.time - Val(Val(lastEvent.call).answer_time)

---------------------------------------------------------------------------
(* Claims about extract_phone (specification SpecPhone) *)

DigitsOf(s) == SelectSeq(s, LAMBDA c : c \in Digits)

\* C6: extract_phone returns the digits of the caller id, the first replaced by 7
\* exactly when there are 11 digits starting with 8, and None exactly when there
\* are fewer than 10 digits; "8-916-123-45-67" gives "79161234567", "123" None.
C6_ExtractPhone ==
    ~IsNone(phone_ret) =>
        LET ds == DigitsOf(callerid_arg)
            r == Val(phone_ret)
        IN /\ IsNone(r) <=> Len(ds) < 10
           /\ ~IsNone(r) =>
                 /\ Len(Val(r)) = Len(ds)
                 /\ \A i \in 2..Len(ds) : Val(r)[i] = ds[i]
                 /\ Val(r)[1] = IF Len(ds) = 11 /\ ds[1] = "8" THEN "7" ELSE ds[1]
           /\ callerid_arg = CidDashed =>
                 r = Some(<<"7", "9", "1", "6", "1", "2", "3", "4", "5", "6", "7">>)
           /\ callerid_arg = CidShort => r = None

\* eleven digits starting with 8 among other characters: the 8 became a 7
C6_Witness ==
    /\ ~IsNone(phone_ret)
    /\ ~IsNone(Val(phone_ret))
    /\ Len(callerid_arg) = 12
    /\ Len(DigitsOf(callerid_arg)) = 11
    /\ callerid_arg[1] = "-"
    /\ callerid_arg[2] = "8"
    /\ Val(Val(phone_ret))[1] = "7"

---------------------------------------------------------------------------
(* Claims about detect_direction (specification SpecDirection) *)

HasMarker(s, mark) == Contains(Lower(s), mark)

\* the classification C7 describes, over channel name and context
ClaimedDirection(channel, context) ==
    IF \/ HasMarker(channel, MarkTrunk) \/ HasMarker(channel, MarkPstn)
       \/ HasMarker(context, MarkTrunk) \/ HasMarker(context, MarkPstn)
    THEN "inbound"
    ELSE IF HasMarker(channel, MarkInternal) \/ HasMarker(context, MarkInternal)
    THEN "outbound"
    ELSE IF HasMarker(context, MarkExtLocal) THEN "internal"
    ELSE "unknown"

\* C7 as stated: the direction is the first match of trunk/PSTN (inbound),
\* from-internal (outbound), ext-local in the context (internal), else unknown,
\* matched case-insensitively over channel name and context.
C7_Original ==
    ~IsNone(direction_ret) =>
        Val(direction_ret) = ClaimedDirection(channel_arg, context_arg)

\* C7 amended: that holds in integration_debug.py; integration.py matches the
\* channel name only, as if the context were empty, and never answers internal.
C7_DirectionByVariant ==
    ~IsNone(direction_ret) =>
        IF variant = "integration_debug"
        THEN Val(direction_ret) = ClaimedDirection(channel_arg, context_arg)
        ELSE /\ Val(direction_ret) = ClaimedDirection(channel_arg, <<>>)
             /\ Val(direction_ret) # "internal"

\* integration_debug.py: from-internal in the channel, a trunk marker in the context
C7_Witness ==
    /\ variant = "integration_debug"
    /\ channel_arg = ChInternal
    /\ context_arg = CtxPstnMixed
    /\ direction_ret = Some("inbound")

---------------------------------------------------------------------------
(* Claims about the CRM client (specification SpecApi) *)

\* both attempts of call t were answered 401
Both401(t) ==
    /\ Len(replies[t]) = 2
    /\ replies[t][1] = Some(401)
    /\ replies[t][2] = Some(401)

\* C8 as stated: an api_request call sends at most two HTTP requests, and after
\* two 401 replies it ends by raising an authorization error to its caller.
C8_Original ==
    \A t \in ApiTasks :
        /\ Len(attempts[t]) <= 2
        /\ Both401(t) => pc[t] = "done" /\ result[t] = "raised"

\* C8 amended: at most two HTTP requests; after two 401 replies the call ends
\* without a further attempt and returns None, as for any other status >= 400
\* (the error is logged, nothing is raised).
C8_AtMostTwoAttempts ==
    \A t \in ApiTasks :
        /\ Len(attempts[t]) <= 2
        /\ Both401(t) => pc[t] = "done" /\ result[t] = "None"

\* a call answered 401 twice, the retry sent with a refreshed token
C8_Witness ==
    \E t \in ApiTasks :
        /\ Both401(t)
        /\ pc[t] = "done"
        /\ attempts[t][2].bearer # attempts[t][1].bearer

\* C9, state part: a call makes at most one refresh_tokens() call, and makes it
\* exactly when its first attempt was answered 401; a retry is in flight only
\* after that exchange was stored, and repeats method, endpoint and data.
C9_RefreshState ==
    \A t \in ApiTasks :
        /\ refresh_calls[t] <= 1
        /\ refresh_calls[t] = 1 <=>
               (Len(replies[t]) >= 1 /\ replies[t][1] = Some(401))
        /\ Len(attempts[t]) = 2 =>
               /\ refresh_calls[t] = 1
               /\ Val(exchange[t]).state = "stored"
               /\ attempts[t][2].request = attempts[t][1].request
               /\ attempts[t][2].request = Val(call_args[t])

\* C9, step part: the retry carries the access token held when it is sent, a
\* token some refresh has stored.
C9_RetryStep ==
    \A t \in ApiTasks :
        (Len(attempts[t]) = 1 /\ Len(attempts'[t]) = 2) =>
            /\ attempts'[t][2].bearer = access_token
            /\ ~IsNone(access_token)
            /\ Val(access_token) >= 1

\* C9: a first attempt answered 401 triggers exactly one refresh_tokens(), which
\* completes before the retry of the same request is sent with the access token
\* current after the refresh; any other first reply triggers no refresh.
C9_OneRefreshThenRetry == [](C9_RefreshState) /\ [][C9_RetryStep]_vars

\* a retry in flight with the token pair its own refresh obtained
C9_Witness ==
    \E t \in ApiTasks :
        /\ Len(attempts[t]) = 2
        /\ Len(replies[t]) = 1
        /\ attempts[t][2].bearer = Some(Val(exchange[t]).pair)
        /\ attempts[t][1].bearer = Some(0)

\* C10 as stated: callers whose refresh_tokens() calls overlap wait for one and
\* the same token exchange, so one exchange is sent and all get the same pair.
C10_Original ==
    \A c1, c2 \in Callers :
        (c1 # c2 /\ pc[c1] = "refresh_wait" /\ pc[c2] = "refresh_wait") =>
            Val(exchange[c1]).pair = Val(exchange[c2]).pair

---------------------------------------------------------------------------
(* Further claims about the session engine (specification Spec) *)

\* a digits-only string of at least 10 digits
ValidPhone(ph) == Len(ph) >= 10 /\ \A i \in 1..Len(ph) : ph[i] \in Digits

\* C14 as stated: a BridgeEnter(id) handled while the session is already bridged
\* changes nothing, so answer_time keeps the time of the first BridgeEnter.
C14_Original ==
    (/\ lastEvent.type = "BridgeEnter"
     /\ ~IsNone(lastEvent.call)
     /\ ~IsNone(Val(lastEvent.call).answer_time)) =>
        active_channels[lastEvent.id] = Val(lastEvent.call)

\* C15 as stated: every call_data on_hangup passes to process_call carries a
\* digits-only phone of at least 10 digits, in both variants and every configuration.
C15_Original ==
    \A i \in 1..Len(created_tasks) : ValidPhone(created_tasks[i].phone)

---------------------------------------------------------------------------
(* Further claims about the CRM client (specification SpecApi) *)

\* the callers whose token exchange is in flight
RefreshInFlight == {c \in Callers : pc[c] = "refresh_wait"}

\* C11 as stated: at most one refresh-token exchange is in flight at any time,
\* request-driven and timer refreshes counted together.
C11_Original == Cardinality(RefreshInFlight) <= 1

\* C17 as stated: refresh_tokens() called while refresh_token is absent sends
\* nothing to the identity endpoint, from api_request as from the timer.
C17_Original ==
    \A c \in Callers :
        pc[c] = "refresh_wait" => ~IsNone(Val(exchange[c]).sent)

ErrorReply(reply) == IsNone(reply) \/ Val(reply) >= 400

\* an error outcome: the exception of the transport, or None for a status
ErrorOutcome(reply) == IF IsNone(reply) THEN "raised" ELSE "None"

\* C19: a first reply that is a transport failure or a status >= 400 other than
\* 401 ends the call after one HTTP request, with no refresh_tokens() and an
\* error outcome; so does any such reply, 401 included, to the retry, which is
\* the one request of the call made with retry=False.
C19_NoRetryOutside401 ==
    \A t \in ApiTasks :
        /\ (/\ Len(replies[t]) >= 1
            /\ ErrorReply(replies[t][1])
            /\ replies[t][1] # Some(401)) =>
               /\ pc[t] = "done"
               /\ Len(attempts[t]) = 1
               /\ refresh_calls[t] = 0
               /\ IsNone(exchange[t])
               /\ result[t] = ErrorOutcome(replies[t][1])
        /\ (Len(replies[t]) = 2 /\ ErrorReply(replies[t][2])) =>
               /\ pc[t] = "done"
               /\ Len(attempts[t]) = 2
               /\ refresh_calls[t] = 1
               /\ result[t] = ErrorOutcome(replies[t][2])

\* a call whose only request met a transport failure while tokens were held,
\* and another answered 500
C19_Witness ==
    \E t, u \in ApiTasks :
        /\ replies[t] = <<None>>
        /\ result[t] = "raised"
        /\ replies[u] = <<Some(500)>>
        /\ result[u] = "None"
        /\ access_token = Some(0)
        /\ refresh_token = Some(0)

---------------------------------------------------------------------------
(* Claims about the token life cycle (specification SpecAuth) *)

\* C16 as stated: access_token and refresh_token are both present or both
\* absent, and when present they come from the same exchange.
C16_Original ==
    /\ IsNone(access_token) <=> IsNone(refresh_token)
    /\ ~IsNone(access_token) => access_token = refresh_token

\* the step in which exchange_code gets its reply
C18_ExchangeCodeStep ==
    (oauth.pc = "wait" /\ oauth'.pc = "done") =>
        /\ (IsNone(oauth'.reply) \/ Val(oauth'.reply) # 200) =>
               /\ oauth'.result = "raised"
               /\ UNCHANGED <<access_token, refresh_token, token_file>>
        /\ (oauth'.reply = Some(200) /\ oauth'.body = "both" /\ oauth'.saved) =>
               /\ oauth'.result = "returned"
               /\ access_token' = oauth.pair
               /\ refresh_token' = oauth.pair
               /\ token_file' = Some([access_token |-> oauth.pair,
                                      refresh_token |-> oauth.pair])

\* C18: exchange_code raises on every reply whose status is not 200 (and on no
\* reply), leaving access_token, refresh_token and tokens.json as they were; on
\* a 200 reply carrying both tokens it stores both and, the file being
\* writable, persists them and returns.
C18_ExchangeCode == [][C18_ExchangeCodeStep]_vars

\* a 400 reply whose body carries both keys: raised, the loaded pair still held
C18_Witness ==
    /\ oauth.pc = "done"
    /\ oauth.reply = Some(400)
    /\ oauth.body = "both"
    /\ oauth.result = "raised"
    /\ access_token = Some(0)
    /\ refresh_token = Some(0)
    /\ token_file = Some([access_token |-> Some(0), refresh_token |-> Some(0)])

---------------------------------------------------------------------------
(* Claims about the call processor (specification SpecProc) *)

\* how many times process_call p has performed op
OpCount(p, op) == Len(SelectSeq(proc[p].ops, LAMBDA o : o.op = op))

\* the lookup of p returned without a contact / with a contact
NoContact(p) ==
    /\ ~IsNone(proc[p].lookup)
    /\ Val(proc[p].lookup).outcome # "raised"
    /\ ~(Val(proc[p].lookup).outcome = "json" /\ Val(proc[p].lookup).has_contacts)

ContactFound(p) ==
    proc[p].lookup = Some([outcome |-> "json", has_contacts |-> TRUE])

\* C12: when the contact lookup finds no contact, exactly one unsorted-lead
\* request is issued, and no note request, recording lookup or upload is made.
C12_NoContactOneLead ==
    \A p \in ProcTasks :
        NoContact(p) =>
            /\ OpCount(p, "create_unsorted") = 1
            /\ OpCount(p, "add_note") = 0
            /\ OpCount(p, "find_recording") = 0
            /\ OpCount(p, "upload") = 0
            /\ proc[p].ops[Len(proc[p].ops)].op = "create_unsorted"
            /\ proc[p].notes = 0
            /\ proc[p].files = 0

\* the CRM answered the lookup with an empty contact list and accepted the lead
C12_Witness ==
    \E p \in ProcTasks :
        /\ proc[p].lookup = Some([outcome |-> "json", has_contacts |-> FALSE])
        /\ proc[p].pc = "done"
        /\ proc[p].leads = 1

\* C13: when a contact is found, exactly one note request is made and no lead;
\* the upload is attempted at most once, only with a recording located and only
\* after the note request has its answer; with a recording present and both
\* requests accepted the contact has gained one note and one file.
C13_ContactFoundOneNote ==
    \A p \in ProcTasks :
        ContactFound(p) =>
            /\ OpCount(p, "add_note") = 1
            /\ OpCount(p, "create_unsorted") = 0
            /\ OpCount(p, "upload") <= 1
            /\ OpCount(p, "upload") = 1 =>
                   /\ ~IsNone(proc[p].recording_path)
                   /\ ~IsNone(proc[p].note)
                   /\ Val(proc[p].note) # "raised"
                   /\ proc[p].ops[Len(proc[p].ops)].op = "upload"
            /\ (/\ proc[p].pc = "done"
                /\ proc[p].note = Some("json")
                /\ proc[p].upload = Some(Some(200))) =>
                   /\ proc[p].notes = 1
                   /\ proc[p].files = 1

\* note and recording both accepted for a found contact
C13_Witness ==
    \E p \in ProcTasks :
        /\ ContactFound(p)
        /\ proc[p].pc = "done"
        /\ ~IsNone(proc[p].recording_path)
        /\ proc[p].notes = 1
        /\ proc[p].files = 1

\* C20 as stated: process_call checks the phone of its call_data first, and for
\* one that is not a valid phone raises and issues no CRM request.
C20_Original ==
    \A p \in ProcTasks :
        (~IsNone(proc[p].call_data) /\ ~ValidPhone(Val(proc[p].call_data).phone)) =>
            /\ proc[p].ops = <<>>
            /\ proc[p].pc = "done" => proc[p].result = "raised"

---------------------------------------------------------------------------
(* Claims about overwriting, framing and independence of sessions          *)
(* (specification Spec)                                                    *)

\* the ids whose last NewChannel was followed by no Hangup
LiveIds == {id \in Ids : ~IsNone(created[id])}

\* the entry a NewChannel event with the recorded inputs stores
CreatedEntry(id) ==
    NewSession(Val(created[id]).channel, Val(created[id]).callerid,
               Val(created[id]).context, Val(created[id]).time)

C23_BridgeFrame ==
    /\ \A id \in DOMAIN active_channels :
          /\ ~IsNone(created[id])
          /\ active_channels[id].direction = CreatedEntry(id).direction
          /\ active_channels[id].callerid = Val(created[id]).callerid
          /\ active_channels[id].start_time = Val(created[id]).time
    /\ (lastEvent.type = "BridgeEnter" /\ ~IsNone(lastEvent.call)) =>
          active_channels[lastEvent.id] =
              [Val(lastEvent.call) EXCEPT !.connected = TRUE,
                                          !.answer_time = Some(lastEvent.time)]
    /\ (HangupOfSession /\ FactEmitted) =>
          /\ LastFact.direction = Val(lastEvent.call).direction
          /\ LastFact.uniqueid = lastEvent.id
          /\ LastFact.timestamp = isoformat(Val(lastEvent.call).start_time)

\* an inbound call created at 0, answered at 7, then hung up
C23_Witness ==
    /\ HangupOfSession
    /\ FactEmitted
    /\ Val(lastEvent.call).start_time = 0
    /\ Val(lastEvent.call).answer_time = Some(7)
    /\ LastFact.direction = "inbound"
    /\ LastFact.timestamp = isoformat(0)

\* one event is handled per step, and it leaves every other id alone
C28_EventStep ==
    nEvents' # nEvents =>
        /\ nEvents' = nEvents + 1
        /\ \A i \in 1..Len(created_tasks) : created_tasks'[i] = created_tasks[i]
        /\ Len(created_tasks') > Len(created_tasks) =>
               created_tasks'[Len(created_tasks')].uniqueid = lastEvent'.id
        /\ \A b \in Ids \ {lastEvent'.id} :
               /\ b \in DOMAIN active_channels' <=> b \in DOMAIN active_channels
               /\ b \in DOMAIN active_channels => active_channels'[b] = active_channels[b]
               /\ emitted'[b] = emitted[b]

\* C28: each handler reads and writes the table within one step, so events take
\* effect one at a time in arrival order, and an event for one id changes
\* neither the session nor the call_data of another id.
C28_HandlersIndependent == [][C28_EventStep]_vars

\* a Hangup of id 1 emitted its call_data while the session of id 2 stayed
C28_Witness ==
    /\ HangupOfSession
    /\ FactEmitted
    /\ lastEvent.id = 1
    /\ 2 \in DOMAIN active_channels
    /\ LastFact.uniqueid = 1

\* C30: the table holds exactly the ids with a NewChannel handled and no Hangup
\* handled since, whatever the events, and never more entries than such ids.
C30_TableIsLive ==
    /\ DOMAIN active_channels = LiveIds
    /\ Cardinality(DOMAIN active_channels) <= Cardinality(LiveIds)

\* id 1 was created and hung up with a fact, id 2 created afterwards
C30_Witness ==
    /\ emitted[1] = 1
    /\ lastEvent.type = "NewChannel"
    /\ lastEvent.id = 2
    /\ DOMAIN active_channels = {2}

---------------------------------------------------------------------------
(* Claims about failing token exchanges (specifications SpecApi, SpecAuth)  *)

\* the exchange of caller c got an error body or no reply at all
ExchangeFailed(c) == ~IsNone(exchange[c]) /\ Val(exchange[c]).state = "failed"

\* an api_request whose refresh failed has ended by raising, one request sent
C24_FailedState ==
    \A t \in ApiTasks :
        ExchangeFailed(t) =>
            /\ pc[t] = "done"
            /\ result[t] = "raised"
            /\ Len(attempts[t]) = 1

\* the step in which a refresh fails leaves the tokens and tokens.json alone
C24_FailedStep ==
    \A c \in Callers :
        (pc[c] = "refresh_wait" /\ pc'[c] # "refresh_wait"
         /\ Val(exchange'[c]).state = "failed") =>
            /\ UNCHANGED <<access_token, refresh_token, token_file>>
            /\ pc'[c] = IF c = Timer THEN "idle" ELSE "done"

\* C24: when the refresh-token exchange fails (an error reply, which carries no
\* tokens, or no reply) refresh_tokens() raises to its caller, access_token,
\* refresh_token and tokens.json stay as they were, and the api_request that
\* called it sends no second request.
C24_FailedRefresh == [](C24_FailedState) /\ [][C24_FailedStep]_vars

\* the refresh of an api_request and that of the timer both failed; pair 0 is kept
C24_Witness ==
    /\ \E t \in ApiTasks : ExchangeFailed(t) /\ result[t] = "raised"
    /\ ExchangeFailed(Timer)
    /\ pc[Timer] = "idle"
    /\ access_token = Some(0)
    /\ refresh_token = Some(0)
    /\ token_file = Some([access_token |-> Some(0), refresh_token |-> Some(0)])

\* C25 as stated: when save_tokens() fails during exchange_code the new pair is
\* held in memory and the OAuth callback still succeeds.
C25_Original ==
    (/\ oauth.pc = "done"
     /\ oauth.reply = Some(200)
     /\ oauth.body = "both"
     /\ ~oauth.saved) =>
        oauth.result = "returned"

---------------------------------------------------------------------------
(* Further claims about the call processor (specification SpecProc)        *)

\* the upload of p was attempted and failed
UploadFailed(p) == ~IsNone(proc[p].upload) /\ Val(proc[p].upload) # Some(200)

\* C26: a failed upload of the recording (a status other than 200, an
\* unreadable file, a transport error) raises nothing, is followed by no retry
\* and no further CRM request, and leaves the result of the note request as
\* what add_call_to_contact returns.
C26_UploadFailureLogged ==
    \A p \in ProcTasks :
        UploadFailed(p) =>
            /\ proc[p].pc = "done"
            /\ proc[p].result = "returned"
            /\ OpCount(p, "upload") = 1
            /\ proc[p].ops[Len(proc[p].ops)].op = "upload"
            /\ proc[p].files = 0
            /\ proc[p].note \in {Some("json"), Some("None")}
            /\ proc[p].notes = IF proc[p].note = Some("json") THEN 1 ELSE 0

\* one upload answered 500 after an accepted note, another that got no reply
C26_Witness ==
    \E p, q \in ProcTasks :
        /\ proc[p].upload = Some(Some(500))
        /\ proc[p].notes = 1
        /\ proc[p].result = "returned"
        /\ proc[q].upload = Some(None)
        /\ proc[q].result = "returned"

\* C29 as stated: a contact lookup that ended in an API error (api_request gave
\* None for a status >= 400) is not followed by the creation of a lead.
C29_Original ==
    \A p \in ProcTasks :
        (~IsNone(proc[p].lookup) /\ Val(proc[p].lookup).outcome = "None") =>
            OpCount(p, "create_unsorted") = 0

---------------------------------------------------------------------------
(* Claims about the session engine with its tasks (specification SpecSync)  *)

\* every event handler can run, and every task can take its next step,
\* whatever the other tasks are doing
C21_NothingBlocked ==
    /\ nEvents < MaxSyncEvents =>
          /\ ENABLED SyncNewChannel
          /\ ENABLED SyncBridgeEnter
          /\ ENABLED SyncHangup
    /\ \A p \in ProcTasks :
          /\ (p <= Len(created_tasks) /\ proc[p].pc = "idle") =>
                 ENABLED SyncTaskStart(p)
          /\ proc[p].pc = "find_wait" => ENABLED FindContactReply(p, "json", TRUE, None)
          /\ proc[p].pc = "lead_wait" => ENABLED LeadReply(p, "json")
          /\ proc[p].pc = "note_wait" => ENABLED NoteReply(p, "json", FALSE)
          /\ proc[p].pc = "upload_wait" => ENABLED UploadReply(p, Some(200))

\* the step of an event handler does no CRM I/O: no task moves in it, and after
\* a Hangup the session is gone and the new task has not started
C21_HandlerStep ==
    nEvents' # nEvents =>
        /\ proc' = proc
        /\ lastEvent'.type = "Hangup" => lastEvent'.id \notin DOMAIN active_channels'
        /\ Len(created_tasks') > Len(created_tasks) =>
               (Len(created_tasks') \in ProcTasks =>
                    proc'[Len(created_tasks')].pc = "idle")

\* C21: on_hangup removes the session and returns without waiting for the CRM
\* I/O of the call_data it submitted; while a task is pending or hung on a
\* request, later events are still handled, and a task that never completes
\* holds up no other task and no handler.
C21_HangupDoesNotWait == [](C21_NothingBlocked) /\ [][C21_HandlerStep]_vars

\* the first task hangs in its contact lookup since two events were handled;
\* two more events were handled since and the second task is over
C21_Witness ==
    /\ proc[1].pc = "find_wait"
    /\ proc[1].started_at = 2
    /\ nEvents = 4
    /\ 2 \notin DOMAIN active_channels
    /\ proc[2].pc = "done"

\* a call that has started runs the call_data of its own task, and has made
\* each of its requests at most once
C27_OncePerFact ==
    \A p \in ProcTasks :
        /\ proc[p].pc # "idle" =>
               /\ p <= Len(created_tasks)
               /\ proc[p].call_data = Some(created_tasks[p])
        /\ OpCount(p, "find_contact") <= 1
        /\ OpCount(p, "create_unsorted") <= 1
        /\ OpCount(p, "add_note") <= 1

\* no step submits call_data again: tasks are created by Hangup events only,
\* a call that has started keeps its call_data, one that is over stays over
C27_NoResubmission ==
    /\ Len(created_tasks') > Len(created_tasks) =>
           /\ Len(created_tasks') = Len(created_tasks) + 1
           /\ nEvents' = nEvents + 1
           /\ lastEvent'.type = "Hangup"
    /\ \A p \in ProcTasks :
           /\ proc[p].pc # "idle" => proc'[p].call_data = proc[p].call_data
           /\ proc[p].pc = "done" => proc'[p] = proc[p]

\* C27: each call_data starts one process_call task; whatever its CRM requests
\* give (error status, transport failure, exception) it is never submitted
\* again, and contact lookup, lead creation and note creation are each made at
\* most once for it.
C27_FactProcessedOnce == [](C27_OncePerFact) /\ [][C27_NoResubmission]_vars

\* both tasks are over, one by an exception in the lookup, one after an error
\* answer to its lead request
C27_Witness ==
    /\ Len(created_tasks) = 2
    /\ proc[1].pc = "done"
    /\ proc[1].result = "raised"
    /\ OpCount(1, "find_contact") = 1
    /\ proc[2].pc = "done"
    /\ OpCount(2, "create_unsorted") = 1
    /\ proc[2].leads = 0

---------------------------------------------------------------------------
(* Counting the call_data of an id (specification Spec)                    *)

\* the call_data submitted so far for id
FactsOf(id) == SelectSeq(created_tasks, LAMBDA f : f.uniqueid = id)

\* the step handles a Hangup(id) that follows a NewChannel(id) with no other
\* Hangup(id) in between
ClosingHangup(id) ==
    /\ nEvents' = nEvents + 1
    /\ lastEvent'.type = "Hangup"
    /\ lastEvent'.id = id
    /\ ~IsNone(created[id])

\* in every step the call_data of an id grow by one at most, and only in a
\* Hangup(id) that follows a NewChannel(id)
C31_FactStep ==
    \A id \in Ids :
        /\ Len(FactsOf(id)') >= Len(FactsOf(id))
        /\ Len(FactsOf(id)') <= Len(FactsOf(id)) + 1
        /\ Len(FactsOf(id)') > Len(FactsOf(id)) => ClosingHangup(id)

\* C31: the call_data submitted for an id never outnumber the Hangup(id)
\* events that directly follow a NewChannel(id) among the NewChannel and Hangup
\* events of the id: a repeated or late Hangup submits nothing, and several
\* NewChannel before one Hangup give one call_data at most.
C31_FactsBoundedByHangups == [][C31_FactStep]_vars

\* a second Hangup of an id after the one that submitted its call_data
C31_Witness ==
    /\ lastEvent.type = "Hangup"
    /\ IsNone(lastEvent.call)
    /\ nEvents = 3
    /\ Len(FactsOf(lastEvent.id)) = 1
    /\ ~FactEmitted

---------------------------------------------------------------------------
(* Memory and tokens.json (specification SpecAuth)                         *)

\* tokens.json holds the pair held in memory (or there is neither)
FileMatchesMemory ==
    IF IsNone(token_file)
    THEN IsNone(access_token) /\ IsNone(refresh_token)
    ELSE /\ Val(token_file).access_token = access_token
         /\ Val(token_file).refresh_token = refresh_token

\* the pair an exchange_code or refresh_tokens call stores in this step, the
\* call returning without raising; empty when the step is no such return
StoredNow ==
    {Val(oauth.pair) : x \in {y \in {1} : /\ oauth.pc = "wait"
                                          /\ oauth'.pc = "done"
                                          /\ oauth'.result = "returned"}}
    \cup {Val(exchange[c]).pair : c \in {d \in Callers :
                                            /\ pc[d] = "refresh_wait"
                                            /\ pc'[d] # "refresh_wait"
                                            /\ Val(exchange'[d]).state = "stored"}}

\* the step ends an exchange_code or refresh_tokens call that raised after it
\* had assigned: the second key was missing, or save_tokens failed
BrokenUpdateStep ==
    \/ /\ oauth.pc = "wait"
       /\ oauth'.pc = "done"
       /\ oauth'.reply = Some(200)
       /\ \/ oauth'.body = "access_only"
          \/ oauth'.body = "both" /\ ~oauth'.saved
    \/ \E c \in Callers :
          /\ pc[c] = "refresh_wait"
          /\ pc'[c] # "refresh_wait"
          /\ Val(exchange'[c]).state \in {"unsaved", "partial"}

\* what one step does to memory and tokens.json
C32_TokenStep ==
    /\ \A pair \in StoredNow :
           /\ access_token' = Some(pair)
           /\ refresh_token' = Some(pair)
           /\ token_file' = Some([access_token |-> Some(pair),
                                  refresh_token |-> Some(pair)])
    /\ token_file' # token_file => StoredNow # {}
    /\ (FileMatchesMemory /\ ~BrokenUpdateStep) => FileMatchesMemory'

\* C32: exchange_code and refresh_tokens assign both tokens and save them with
\* no suspension in between, so no state has a call halfway through its update.
\* A call that returns leaves its own pair both in memory and in tokens.json;
\* tokens.json changes in no other step; and file and memory, equal after
\* load_tokens, stay equal in every step but one in which a call raises after
\* assigning (a failed save, a missing refresh_token key). So with no failed
\* save the file holds the pair last set by a call that succeeded, whatever
\* the order in which concurrent exchanges complete.
C32_FileFollowsMemory == [][C32_TokenStep]_vars

\* the callback's exchange was posted before the timer's refresh and completed
\* after it: memory and file hold the callback's pair, the older of the two
C32_Witness ==
    /\ oauth.result = "returned"
    /\ ~IsNone(exchange[Timer])
    /\ Val(exchange[Timer]).state = "stored"
    /\ Val(oauth.pair) < Val(exchange[Timer]).pair
    /\ access_token = oauth.pair
    /\ token_file = Some([access_token |-> oauth.pair, refresh_token |-> oauth.pair])

=============================================================================
